---- MODULE Spec2Model ----
(***************************************************************************)
(* Model of labs_optimizer/core.py: the LABS energy function labs_cost,    *)
(* the deterministic hill climber hill_climb_deterministic, the random     *)
(* restart controller solve_labs_random_restart and the seed interface     *)
(* optimize_from_seed.                                                     *)
(*                                                                         *)
(* Python lists are mutable objects, so the model keeps a heap that maps   *)
(* object ids to list contents; program variables that name a list hold    *)
(* an object id.  Indices are 0-based in the code and 1-based in TLA+, so  *)
(* the code's sequence[i] is s[i + 1] here.                                *)
(***************************************************************************)
EXTENDS Integers, Sequences, FiniteSets

\* Bounds of the model.
MaxN == 8
MaxSolveN == 4
MaxRestarts == 2
MaxCalls == 2

\* The reference held by a variable bound to None (or not bound yet).
Null == 0

\* float('inf'): a value no cost can take (costs are sums of squares).
Inf == 0 - 1

VARIABLES
    pc,            \* position of the running call
    op,            \* the core operation the caller invoked
    heap,          \* object id -> contents of the list object
    sequence,      \* the argument of labs_cost / hill_climb_deterministic
    seq_before,    \* contents of the argument at the moment of the call
    current_seq,   \* hill_climb_deterministic: the working list
    current_cost,  \* hill_climb_deterministic: cost of the working list
    i,             \* hill_climb_deterministic: index of the for loop
    improved,      \* hill_climb_deterministic: flag of the current pass
    passes,        \* number of iterations of the while loop so far
    N,             \* solve_labs_random_restart: argument N
    num_restarts,  \* solve_labs_random_restart: argument num_restarts
    r,             \* solve_labs_random_restart: loop variable
    best_seq,      \* solve_labs_random_restart: incumbent list (or Null)
    best_cost,     \* solve_labs_random_restart: incumbent cost (or Inf)
    finals,        \* (final_seq contents, final_cost) of each restart so far
    result,        \* the pair the operation returned
    calls,         \* number of refinements the caller has started
    prev_result    \* contents and cost returned by the previous refinement

vars == <<pc, op, heap, sequence, seq_before, current_seq, current_cost, i,
          improved, passes, N, num_restarts, r, best_seq, best_cost, finals,
          result, calls, prev_result>>

----------------------------------------------------------------------------
\* Lists over {-1, +1}

\* [random.choice([-1, 1]) for _ in range(N)]: every list the generator can
\* produce; range(N) is empty for N <= 0, so the only outcome is then [].
generate_random_sequence(n) == [1..n -> {0 - 1, 1}]

\* The integers a caller may pass as N: non-positive ones included.
SizeArgs == (0 - 1)..MaxSolveN

\* The integers a caller may pass as num_restarts.
RestartArgs == (0 - 1)..MaxRestarts

\* The sequences a caller may pass: every length from 0 to MaxN.
InputSequences == UNION {generate_random_sequence(n) : n \in 0..MaxN}

----------------------------------------------------------------------------
\* labs_cost

\* for i in range(N - k): c_k += sequence[i] * sequence[i + k]
RECURSIVE Autocorrelation(_, _, _)
Autocorrelation(s, k, j) ==
    IF j >= Len(s) - k THEN 0
    ELSE s[j + 1] * s[j + k + 1] + Autocorrelation(s, k, j + 1)

\* The inner loop with the partner index written k instead of i + k.
RECURSIVE AutocorrelationFixedPartner(_, _, _)
AutocorrelationFixedPartner(s, k, j) ==
    IF j >= Len(s) - k THEN 0
    ELSE s[j + 1] * s[k + 1] + AutocorrelationFixedPartner(s, k, j + 1)

\* for k in range(1, N): total_cost += c_k ** 2
RECURSIVE SumSquares(_, _)
SumSquares(s, k) ==
    IF k >= Len(s) THEN 0
    ELSE Autocorrelation(s, k, 0) * Autocorrelation(s, k, 0)
         + SumSquares(s, k + 1)

RECURSIVE SumSquaresFixedPartner(_, _)
SumSquaresFixedPartner(s, k) ==
    IF k >= Len(s) THEN 0
    ELSE AutocorrelationFixedPartner(s, k, 0)
         * AutocorrelationFixedPartner(s, k, 0)
         + SumSquaresFixedPartner(s, k + 1)

labs_cost_fixed_partner(s) == SumSquaresFixedPartner(s, 1)

labs_cost(s) == SumSquares(s, 1)

----------------------------------------------------------------------------
\* The heap of list objects

\* The id of the next list object: the smallest id not in use.
NewRef(h) ==
    CHOOSE id \in 1..(Cardinality(DOMAIN h) + 1) : id \notin DOMAIN h

\* A new list object with contents s.
Alloc(h, s) ==
    [id \in (DOMAIN h) \cup {NewRef(h)} |-> IF id = NewRef(h) THEN s ELSE h[id]]

\* The objects no variable refers to any more are reclaimed.
Collect(h, live) == [id \in (DOMAIN h) \cap live |-> h[id]]

\* current_seq = sequence: the working list is the caller's object.
ListAlias(h, ref) == <<h, ref>>

\* current_seq = list(sequence): a new object with the same contents.
ListCopy(h, ref) == <<Alloc(h, h[ref]), NewRef(h)>>

\* current_seq[i] *= -1 (line 104)
FlipBit(h, ref, j) == [h EXCEPT ![ref][j + 1] = (0 - 1) * @]

\* A rejected flip that is left in place.
RevertBitMissing(h, ref, j) == h

\* current_seq[i] *= -1 (line 116, the revert of a rejected flip)
RevertBit(h, ref, j) == [h EXCEPT ![ref][j + 1] = (0 - 1) * @]

\* Acceptance of ties as well as improvements.
AcceptsTies(new_cost, cur_cost) == new_cost <= cur_cost

\* Acceptance with the comparison reversed.
AcceptsWorse(new_cost, cur_cost) == new_cost > cur_cost

\* if new_cost < current_cost
Accepts(new_cost, cur_cost) == new_cost < cur_cost

\* An incumbent displaced by an equal cost.
ImprovesBestOrTies(final_cost, best) ==
    IF best = Inf THEN TRUE ELSE final_cost <= best

\* if final_cost < best_cost, where best_cost starts as float('inf')
ImprovesBest(final_cost, best) ==
    IF best = Inf THEN TRUE ELSE final_cost < best

HcOps == {"hill_climb_deterministic", "optimize_from_seed"}

NoResult == <<Null, Inf>>

----------------------------------------------------------------------------
Init ==
    /\ pc = "idle"
    /\ op = "none"
    /\ heap = <<>>
    /\ sequence = Null
    /\ seq_before = <<>>
    /\ current_seq = Null
    /\ current_cost = 0
    /\ i = 0
    /\ improved = FALSE
    /\ passes = 0
    /\ N = 0
    /\ num_restarts = 0
    /\ r = 0
    /\ best_seq = Null
    /\ best_cost = Inf
    /\ finals = <<>>
    /\ result = NoResult
    /\ calls = 0
    /\ prev_result = NoResult

\* The caller evaluates labs_cost(s); the function has no side effect.
CallLabsCost ==
    /\ pc = "idle"
    /\ \E s \in InputSequences :
          /\ heap' = Alloc(heap, s)
          /\ sequence' = NewRef(heap)
          /\ seq_before' = s
          /\ result' = <<Null, labs_cost(s)>>
    /\ op' = "labs_cost"
    /\ pc' = "returned"
    /\ UNCHANGED <<current_seq, current_cost, i, improved, passes, N,
                   num_restarts, r, best_seq, best_cost, finals, calls,
                   prev_result>>

\* Entry of hill_climb_deterministic(sequence) with the argument ref in heap h:
\* current_seq = list(sequence); current_cost = labs_cost(current_seq).
HcEnter(h, ref) ==
    LET cp == ListCopy(h, ref) IN
    /\ sequence' = ref
    /\ seq_before' = h[ref]
    /\ heap' = cp[1]
    /\ current_seq' = cp[2]
    /\ current_cost' = labs_cost(cp[1][cp[2]])
    /\ passes' = 0
    /\ pc' = "hc_while"

\* The caller invokes hill_climb_deterministic(s).
CallHillClimb ==
    /\ pc = "idle"
    /\ \E s \in InputSequences : HcEnter(Alloc(heap, s), NewRef(heap))
    /\ op' = "hill_climb_deterministic"
    /\ calls' = 1
    /\ UNCHANGED <<i, improved, N, num_restarts, r, best_seq, best_cost,
                   finals, result, prev_result>>

\* The caller invokes optimize_from_seed(s), which delegates.
CallOptimizeFromSeed ==
    /\ pc = "idle"
    /\ \E s \in InputSequences : HcEnter(Alloc(heap, s), NewRef(heap))
    /\ op' = "optimize_from_seed"
    /\ calls' = 1
    /\ UNCHANGED <<i, improved, N, num_restarts, r, best_seq, best_cost,
                   finals, result, prev_result>>

\* The caller refines the sequence a refinement returned.
CallAgain ==
    /\ pc = "returned"
    /\ op \in HcOps
    /\ calls < MaxCalls
    /\ prev_result' = <<heap[result[1]], result[2]>>
    /\ HcEnter(Collect(heap, {result[1]}), result[1])
    /\ result' = NoResult
    /\ calls' = calls + 1
    /\ UNCHANGED <<op, i, improved, N, num_restarts, r, best_seq, best_cost,
                   finals>>

\* while True: improved = False; for i in range(N):
HcPassStart ==
    /\ pc = "hc_while"
    /\ improved' = FALSE
    /\ i' = 0
    /\ passes' = passes + 1
    /\ pc' = "hc_for"
    /\ UNCHANGED <<op, heap, sequence, seq_before, current_seq, current_cost,
                   N, num_restarts, r, best_seq, best_cost, finals, result,
                   calls, prev_result>>

\* One iteration of the for loop: flip, evaluate, keep or revert.
HcFlipStep ==
    /\ pc = "hc_for"
    /\ i < Len(heap[current_seq])
    /\ LET flipped == FlipBit(heap, current_seq, i)
           new_cost == labs_cost(flipped[current_seq])
       IN IF Accepts(new_cost, current_cost)
          THEN /\ heap' = flipped
               /\ current_cost' = new_cost
               /\ improved' = TRUE
          ELSE /\ heap' = RevertBit(flipped, current_seq, i)
               /\ UNCHANGED <<current_cost, improved>>
    /\ i' = i + 1
    /\ UNCHANGED <<pc, op, sequence, seq_before, current_seq, passes, N,
                   num_restarts, r, best_seq, best_cost, finals, result,
                   calls, prev_result>>

\* A single pass: the loop is left whether or not a flip was accepted.
HcPassEndSinglePass ==
    /\ pc = "hc_for"
    /\ i >= Len(heap[current_seq])
    /\ pc' = "hc_return"
    /\ UNCHANGED <<op, heap, sequence, seq_before, current_seq, current_cost,
                   i, improved, passes, N, num_restarts, r, best_seq,
                   best_cost, finals, result, calls, prev_result>>

\* End of the for loop: if not improved: break, else the next pass.
HcPassEnd ==
    /\ pc = "hc_for"
    /\ i >= Len(heap[current_seq])
    /\ pc' = IF improved THEN "hc_while" ELSE "hc_return"
    /\ UNCHANGED <<op, heap, sequence, seq_before, current_seq, current_cost,
                   i, improved, passes, N, num_restarts, r, best_seq,
                   best_cost, finals, result, calls, prev_result>>

\* return current_seq, current_cost to the caller of a refinement.
HcReturn ==
    /\ pc = "hc_return"
    /\ op \in HcOps
    /\ result' = <<current_seq, current_cost>>
    /\ i' = 0
    /\ improved' = FALSE
    /\ pc' = "returned"
    /\ UNCHANGED <<op, heap, sequence, seq_before, current_seq, current_cost,
                   passes, N, num_restarts, r, best_seq, best_cost, finals,
                   calls, prev_result>>

\* The caller invokes solve_labs_random_restart(n, nr).
CallSolve ==
    /\ pc = "idle"
    /\ \E n \in SizeArgs, nr \in RestartArgs :
          /\ N' = n
          /\ num_restarts' = nr
    /\ op' = "solve_labs_random_restart"
    /\ best_seq' = Null
    /\ best_cost' = Inf
    /\ r' = 0
    /\ finals' = <<>>
    /\ pc' = "rr_for"
    /\ UNCHANGED <<heap, sequence, seq_before, current_seq, current_cost, i,
                   improved, passes, result, calls, prev_result>>

\* for r in range(num_restarts): start_seq = generate_random_sequence(N);
\* hill_climb_deterministic(start_seq) is entered.  The lists of the previous
\* iteration that are not the incumbent are unreferenced from here on.
RrRestart ==
    /\ pc = "rr_for"
    /\ r < num_restarts
    /\ \E s \in generate_random_sequence(N) :
          LET h == Collect(heap, {best_seq}) IN
          HcEnter(Alloc(h, s), NewRef(h))
    /\ UNCHANGED <<op, i, improved, N, num_restarts, r, best_seq, best_cost,
                   finals, result, calls, prev_result>>

\* final_seq, final_cost = hill_climb_deterministic(start_seq);
\* if final_cost < best_cost: best_cost = final_cost; best_seq = final_seq
RrTrackBest ==
    /\ pc = "hc_return"
    /\ op = "solve_labs_random_restart"
    /\ IF ImprovesBest(current_cost, best_cost)
       THEN /\ best_cost' = current_cost
            /\ best_seq' = current_seq
       ELSE UNCHANGED <<best_seq, best_cost>>
    /\ finals' = Append(finals, <<heap[current_seq], current_cost>>)
    /\ r' = r + 1
    /\ i' = 0
    /\ improved' = FALSE
    /\ pc' = "rr_for"
    /\ UNCHANGED <<op, heap, sequence, seq_before, current_seq, current_cost,
                   passes, N, num_restarts, result, calls, prev_result>>

\* The for loop is exhausted: return best_seq, best_cost.
RrReturn ==
    /\ pc = "rr_for"
    /\ r >= num_restarts
    /\ result' = <<best_seq, best_cost>>
    /\ heap' = Collect(heap, {best_seq})
    /\ sequence' = Null
    /\ current_seq' = Null
    /\ pc' = "returned"
    /\ UNCHANGED <<op, seq_before, current_cost, i, improved, passes, N,
                   num_restarts, r, best_seq, best_cost, finals, calls,
                   prev_result>>

Next ==
    \/ CallLabsCost
    \/ CallHillClimb
    \/ CallOptimizeFromSeed
    \/ CallAgain
    \/ CallSolve
    \/ HcPassStart
    \/ HcFlipStep
    \/ HcPassEnd
    \/ HcReturn
    \/ RrRestart
    \/ RrTrackBest
    \/ RrReturn

Spec == Init /\ [][Next]_vars

\* The interpreter keeps executing a call that has started: the code is
\* single-threaded and synchronous, and nothing suspends a running loop.
FairSpec == Spec /\ WF_vars(Next)

----------------------------------------------------------------------------
\* Definitions the properties share

Returned(o) == pc = "returned" /\ op = o

RefineReturned == pc = "returned" /\ op \in HcOps

SolveReturned == Returned("solve_labs_random_restart")

\* The sequence with every element negated: [-x for x in s].
Negate(s) == [k \in 1..Len(s) |-> (0 - 1) * s[k]]

\* The sequence reversed.
Reverse(s) == [k \in 1..Len(s) |-> s[Len(s) + 1 - k]]

\* The sequence with the element at position k (1-based) flipped.
FlipAt(s, k) == [s EXCEPT ![k] = (0 - 1) * @]

\* No single flip gives a cost strictly below the cost of s.
IsLocalOptimum(s) ==
    \A k \in 1..Len(s) : labs_cost(FlipAt(s, k)) >= labs_cost(s)

\* The index of the earliest restart whose refined cost is the minimum.
EarliestBest ==
    CHOOSE k \in 1..Len(finals) :
        \A j \in 1..Len(finals) :
            /\ finals[k][2] <= finals[j][2]
            /\ (j < k => finals[j][2] > finals[k][2])

\* The incumbent of the restart loop as a (contents, cost) pair.
Incumbent ==
    IF best_seq = Null THEN NoResult ELSE <<heap[best_seq], best_cost>>

----------------------------------------------------------------------------
\* C1: every (sequence, cost) pair a core operation returns is consistent:
\* a refinement of a sequence of length >= 1, and a random restart search
\* with N >= 1 and num_restarts >= 1, return (s', c') with c' = labs_cost(s').
C1_CostConsistent ==
    /\ (RefineReturned /\ Len(seq_before) >= 1)
          => result[2] = labs_cost(heap[result[1]])
    /\ (SolveReturned /\ N >= 1 /\ num_restarts >= 1)
          => (result[1] # Null /\ result[2] = labs_cost(heap[result[1]]))

C1_Witness ==
    /\ SolveReturned
    /\ N >= 3
    /\ num_restarts >= 2
    /\ result[1] # Null
    /\ result[2] > 0
    /\ result[2] = labs_cost(heap[result[1]])

\* C2: refinement never worsens cost: the cost returned for a sequence s of
\* length >= 1 is at most labs_cost(s).
C2_NeverWorse ==
    (RefineReturned /\ Len(seq_before) >= 1)
        => result[2] <= labs_cost(seq_before)

C2_Witness ==
    /\ RefineReturned
    /\ calls = 1
    /\ Len(seq_before) >= 3
    /\ result[2] < labs_cost(seq_before)

\* C3: the result of a search is a local optimum: no single flip of the
\* returned sequence has a cost strictly below its cost, for a refinement of
\* a sequence of length >= 1 and for a random restart search with
\* num_restarts >= 1.
C3_LocalOptimum ==
    /\ (RefineReturned /\ Len(seq_before) >= 1)
          => IsLocalOptimum(heap[result[1]])
    /\ (SolveReturned /\ N >= 1 /\ num_restarts >= 1)
          => (result[1] # Null /\ IsLocalOptimum(heap[result[1]]))

C3_Witness ==
    /\ RefineReturned
    /\ calls = 1
    /\ passes >= 3
    /\ ~IsLocalOptimum(seq_before)
    /\ IsLocalOptimum(heap[result[1]])

\* C4: a refinement does not mutate the caller's sequence: when the call has
\* returned, the list passed in holds the elements it held at the call.
C4_InputNotMutated ==
    RefineReturned => heap[sequence] = seq_before

C4_Witness ==
    /\ RefineReturned
    /\ calls = 1
    /\ heap[result[1]] # seq_before
    /\ heap[sequence] = seq_before

\* C5: solve_labs_random_restart called with num_restarts <= 0 does not
\* return a result (it fails with an invalid-argument error).
C5_NonPositiveRestartsRejected ==
    ~(SolveReturned /\ num_restarts <= 0)

\* C6: refinement is idempotent: refining the sequence s' that a refinement
\* returned with cost c' returns the sequence s' and the cost c' again.
C6_Idempotent ==
    (RefineReturned /\ calls >= 2 /\ Len(seq_before) >= 1)
        => (heap[result[1]] = prev_result[1] /\ result[2] = prev_result[2])

C6_Witness ==
    /\ RefineReturned
    /\ calls = 2
    /\ Len(seq_before) >= 4
    /\ prev_result[2] > 0
    /\ heap[result[1]] = prev_result[1]
    /\ result[2] = prev_result[2]

\* C7: labs_cost is invariant under negation of every element and under
\* reversal of the sequence, for every sequence of length >= 1.
C7_Symmetries ==
    (Returned("labs_cost") /\ Len(seq_before) >= 1)
        => /\ result[2] = labs_cost(Negate(seq_before))
           /\ result[2] = labs_cost(Reverse(seq_before))

C7_Witness ==
    /\ Returned("labs_cost")
    /\ Len(seq_before) >= 4
    /\ Reverse(seq_before) # seq_before
    /\ Reverse(seq_before) # Negate(seq_before)
    /\ result[2] > 0
    /\ result[2] = labs_cost(Negate(seq_before))
    /\ result[2] = labs_cost(Reverse(seq_before))

\* C8: a degenerate size is rejected: labs_cost and a refinement on an empty
\* sequence, and solve_labs_random_restart with N <= 0, do not return a
\* result (they report an invalid-argument error).
C8_DegenerateSizeRejected ==
    /\ ~(pc = "returned" /\ op \in HcOps \cup {"labs_cost"}
         /\ Len(seq_before) = 0)
    /\ ~(SolveReturned /\ N <= 0)

\* C9: hill_climb_deterministic terminates: current_cost is a non-negative
\* integer that strictly decreases on each accepted flip and is unchanged on
\* each rejected flip, the number of passes is at most the initial cost plus
\* one, and every started refinement reaches its return.
C9_FlipStep ==
    (pc = "hc_for" /\ i < Len(heap[current_seq]))
        => /\ current_cost' >= 0
           /\ (heap'[current_seq] # heap[current_seq]
                  => current_cost' < current_cost)
           /\ (heap'[current_seq] = heap[current_seq]
                  => current_cost' = current_cost)

C9_PassBound ==
    pc \in {"hc_while", "hc_for", "hc_return"}
        => (current_cost >= 0 /\ passes <= labs_cost(seq_before) + 1)

C9_Terminates ==
    /\ [][C9_FlipStep]_vars
    /\ [](C9_PassBound)
    /\ (pc = "hc_while") ~> (pc = "hc_return")

C9_Witness ==
    /\ pc = "hc_return"
    /\ passes >= 3
    /\ current_cost < labs_cost(seq_before)

\* C10: solve_labs_random_restart with num_restarts >= 1 returns the refined
\* result of the earliest restart that attains the minimum refined cost: the
\* incumbent is the earliest best of the restarts so far, it changes only
\* to a strictly lower cost, and later restarts do not alter its contents.
C10_IncumbentStep ==
    (op = "solve_labs_random_restart" /\ best_seq # Null
     /\ Incumbent' # Incumbent)
        => best_cost' < best_cost

C10_IncumbentIsEarliest ==
    /\ (op = "solve_labs_random_restart" /\ Len(finals) >= 1)
          => Incumbent = finals[EarliestBest]
    /\ (SolveReturned /\ num_restarts >= 1)
          => (/\ Len(finals) = num_restarts
              /\ result[1] # Null
              /\ <<heap[result[1]], result[2]>> = finals[EarliestBest])

====
